---- MODULE Spec2Model ----
(***************************************************************************)
(* Model of snakemake_executor_kueue/custom_resource.py: the task handles  *)
(* (KubernetesObject and its two subclasses BatchJob and FluxMiniCluster), *)
(* their operations generate / submit / status / write_log, and the        *)
(* cluster they talk to (jobs, pods, the queue controller).                *)
(*                                                                         *)
(* Python values are tagged records, so that None, integers and strings    *)
(* stay distinct and truthiness is computed as Python computes it.         *)
(* Strings are sequences of one-character strings, so that formatting,     *)
(* concatenation and str.replace are computed character by character.      *)
(***************************************************************************)
EXTENDS Integers, Sequences, FiniteSets, TLC

VARIABLES
  cls,            \* handle -> the class it was constructed from
  job,            \* handle -> self.job (the task)
  executor_args,  \* handle -> self.executor_args
  jobname,        \* handle -> self.jobname
  cluster,        \* sequence of the objects created on the cluster
  pods,           \* sequence of the pods on the cluster
  fs,             \* the files written so far: path -> content
  last,           \* the last call: operation, handle, outcome, result
  probe           \* a native job status under the status mapping

vars == <<cls, job, executor_args, jobname, cluster, pods, fs, last, probe>>

----------------------------------------------------------------------------
(* Bounds of the model *)

\* number of objects the cluster holds at most
MaxObjects == 2

\* number of pods the cluster holds at most
MaxPods == 1

\* largest count a native status field takes in the status mapping
MaxCount == 3

----------------------------------------------------------------------------
(* Python values *)

None == [t |-> "None"]
IntV(n) == [t |-> "int", v |-> n]
StrV(s) == [t |-> "str", v |-> s]
DictV(items) == [t |-> "dict", v |-> items]

\* Python truth value testing
Truthy(x) ==
  CASE x.t = "None" -> FALSE
    [] x.t = "int" -> x.v # 0
    [] x.t = "str" -> Len(x.v) # 0
    [] x.t = "dict" -> Len(x.v) # 0
    [] OTHER -> TRUE

\* a or b
PyOr(a, b) == IF Truthy(a) THEN a ELSE b

\* a != b
PyNe(a, b) == a # b

Digits == <<"0", "1", "2", "3", "4", "5", "6", "7", "8", "9">>

RECURSIVE IntToStr(_)
IntToStr(n) ==
  IF n < 10 THEN <<Digits[n + 1]>>
  ELSE IntToStr(n \div 10) \o <<Digits[(n % 10) + 1]>>

\* str(x), as "%s" and f-strings apply it
PyStr(x) ==
  CASE x.t = "None" -> <<"N", "o", "n", "e">>
    [] x.t = "int" -> IntToStr(x.v)
    [] x.t = "str" -> x.v

\* s.replace(a, b) for one-character a and b
Replace(s, a, b) == [i \in 1..Len(s) |-> IF s[i] = a THEN b ELSE s[i]]

RECURSIVE Join(_, _)
\* sep.join(parts)
Join(parts, sep) ==
  IF Len(parts) = 0 THEN <<>>
  ELSE IF Len(parts) = 1 THEN parts[1]
  ELSE parts[1] \o sep \o Join(Tail(parts), sep)

\* dict.get(key, default)
ResGet(res, key, default) == IF key \in DOMAIN res THEN res[key] ELSE default

----------------------------------------------------------------------------
(* The inputs: handles, tasks, configurations, generate() arguments *)

Handles == {"h1", "h2"}

Classes == {"BatchJob", "FluxMiniCluster"}

S_align_reads == <<"a", "l", "i", "g", "n", "_", "r", "e", "a", "d", "s">>
S_a_b == <<"a", "_", "b">>
S_x == <<"x">>
S_1Gi == <<"1", "G", "i">>
S_200Mi == <<"2", "0", "0", "M", "i">>
S_200M1 == <<"2", "0", "0", "M", "1">>
S_snakejob == <<"s", "n", "a", "k", "e", "j", "o", "b">>

Tasks ==
  { [name |-> StrV(S_align_reads), jobid |-> IntV(42),
     resources |-> ("_cores" :> IntV(1) @@ "_nodes" :> IntV(1))],
    [name |-> StrV(S_a_b), jobid |-> IntV(7),
     resources |-> ("_cores" :> IntV(2) @@ "_nodes" :> IntV(2) @@ "runtime" :> IntV(60)
                    @@ "kueue.memory" :> StrV(S_1Gi) @@ "kueue.tasks" :> IntV(4))],
    [name |-> StrV(S_x), jobid |-> IntV(1),
     resources |-> ("_cores" :> IntV(1) @@ "runtime" :> IntV(0)
                    @@ "kueue.memory" :> StrV(<<>>) @@ "kueue.tasks" :> IntV(0))] }

Configs ==
  { [namespace |-> "ns1", queue_name |-> "user-queue"],
    [namespace |-> "ns2", queue_name |-> "user-queue"] }

\* the arguments of generate()
GenerateArgs ==
  { [image |-> "img", command |-> <<"r", "u", "n">>, args |-> << <<"-", "n">>, <<"a", "l", "l">> >>,
     working_dir |-> None, deadline |-> None, environment |-> None],
    [image |-> "img", command |-> <<"r", "u", "n">>, args |-> <<>>,
     working_dir |-> StrV(<<"/", "w">>), deadline |-> IntV(5),
     environment |-> DictV(<< <<"HOME", "/root">> >>)] }

\* the prefixes of the names of the log files
LogPrefixes == { <<"l", "o", "g">> }

\* the suffixes the cluster appends to a generateName
Suffixes == { <<"a">>, <<"b">> }

----------------------------------------------------------------------------
(* KubernetesObject *)

JobStatus == {"ACTIVE", "FAILED", "READY", "SUCCEEDED", "UNKNOWN"}

NoCall == [op |-> "none", h |-> "none", arg |-> None, outcome |-> "none", result |-> None,
           request |-> None, response |-> None, failed |-> FALSE, files |-> {}]

NoProbe == [status |-> None, completions |-> None, result |-> None]

\* KubernetesObject.__init__, for every handle. The first handle is of either
\* class and has any of the tasks; the second is a BatchJob for the task
\* align_reads/42, in the namespace of the first or in the other one.
Init ==
  /\ cls \in [Handles -> Classes]
  /\ cls["h2"] = "BatchJob"
  /\ job \in [Handles -> Tasks]
  /\ job["h2"].jobid = IntV(42)
  /\ executor_args \in [Handles -> Configs]
  /\ executor_args["h1"].namespace = "ns1"
  /\ jobname = [h \in Handles |-> None]
  /\ cluster = <<>>
  /\ pods = <<>>
  /\ fs = <<>>
  /\ last = NoCall
  /\ probe = NoProbe

\* KubernetesObject.jobprefix
jobprefix(h) ==
  Replace(S_snakejob \o <<"-">> \o PyStr(job[h].name) \o <<"-">> \o PyStr(job[h].jobid),
          "_", "-")

ObjV(o) == [t |-> "obj", v |-> o]

\* the record of a call that made no request to the cluster
LocalCall(op, h, outcome, result) ==
  [op |-> op, h |-> h, arg |-> None, outcome |-> outcome, result |-> result,
   request |-> None, response |-> None, failed |-> FALSE, files |-> {}]

----------------------------------------------------------------------------
(* generate() *)

\* the memory request of a batch job
BatchJob_memory(res) == PyOr(ResGet(res, "kueue.memory", StrV(S_200Mi)), StrV(S_200Mi))

\* the memory limit of a MiniCluster
FluxMiniCluster_memory(res) == PyOr(ResGet(res, "kueue.memory", StrV(S_200M1)), StrV(S_200M1))

\* the name prefix BatchJob.generate puts in the metadata
BatchJob_generate_name(h) == StrV(jobprefix(h))

\* the name prefix FluxMiniCluster.generate puts in the metadata
FluxMiniCluster_generate_name(h) == jobname[h]

\* the job spec built ready to run, with one completion for each node
BatchJob_spec_running(nodes, template) ==
  [parallelism |-> nodes, completions |-> nodes, suspend |-> FALSE, template |-> template]

\* the V1JobSpec that BatchJob.generate builds
BatchJob_spec(nodes, template) ==
  [parallelism |-> nodes, completions |-> IntV(3), suspend |-> TRUE, template |-> template]

\* BatchJob.generate
BatchJob_generate(h, a) ==
  LET res == job[h].resources
      deadline == ResGet(res, "runtime", None)
      nodes == ResGet(res, "_nodes", None)
      cores == ResGet(res, "_cores", None)
      memory == BatchJob_memory(res)
      environment == PyOr(a.environment, DictV(<<>>))
      environ == [i \in 1..Len(environment.v) |->
                    [name |-> environment.v[i][1], value |-> environment.v[i][2]]]
      container == [image |-> a.image,
                    name |-> jobprefix(h),
                    command |-> <<a.command>>,
                    args |-> a.args,
                    working_dir |-> a.working_dir,
                    env |-> environ,
                    resources |-> [requests |-> [cpu |-> cores, memory |-> memory]],
                    active_deadline_seconds |-> IF Truthy(deadline) THEN deadline ELSE None]
      template == [spec |-> [containers |-> <<container>>, restartPolicy |-> "Never"]]
  IN  [api_version |-> "batch/v1",
       kind |-> "Job",
       metadata |-> [generate_name |-> BatchJob_generate_name(h),
                     name |-> None,
                     namespace |-> None,
                     labels |-> [queue_name |-> executor_args[h].queue_name]],
       spec |-> BatchJob_spec(nodes, template)]

\* FluxMiniCluster.generate
FluxMiniCluster_generate(h, a) ==
  LET res == job[h].resources
      deadline == ResGet(res, "runtime", None)
      cores == ResGet(res, "_cores", None)
      nodes == ResGet(res, "_nodes", None)
      memory == FluxMiniCluster_memory(res)
      tasks == PyOr(ResGet(res, "kueue.tasks", IntV(1)), IntV(1))
      container == [command |-> a.command \o <<" ">> \o Join(a.args, <<" ">>),
                    environment |-> a.environment,
                    image |-> a.image,
                    resources |-> [limits |-> [cpu |-> cores, memory |-> memory]]]
  IN  [api_version |-> "flux-framework.org/v1alpha1",
       kind |-> "MiniCluster",
       metadata |-> [generate_name |-> FluxMiniCluster_generate_name(h),
                     name |-> None,
                     namespace |-> StrV(executor_args[h].namespace),
                     labels |-> None],
       spec |-> [job_labels |-> [queue_name |-> executor_args[h].queue_name],
                 containers |-> <<container>>,
                 working_dir |-> a.working_dir,
                 size |-> nodes,
                 tasks |-> tasks,
                 logging |-> [quiet |-> FALSE],
                 deadline |-> IF Truthy(deadline) THEN deadline ELSE None]]

\* generate(), by the class of the handle
generate(h, a) ==
  IF cls[h] = "BatchJob" THEN BatchJob_generate(h, a) ELSE FluxMiniCluster_generate(h, a)

\* a call of generate(): it builds the object and changes nothing
Generate(h, a) ==
  /\ last' = LocalCall("generate", h, "return", ObjV(generate(h, a)))
  /\ UNCHANGED <<cls, job, executor_args, jobname, cluster, pods, fs, probe>>

----------------------------------------------------------------------------
(* The cluster API, as the handles see it *)

JobStatusV(x) == [t |-> "JobStatus", v |-> x]

\* the record of a call that made a request to the cluster
ClusterCall(op, h, outcome, result, request, response, failed, files) ==
  [op |-> op, h |-> h, arg |-> None, outcome |-> outcome, result |-> result,
   request |-> request, response |-> response, failed |-> failed, files |-> files]

\* the API kind a handle creates
KindOf(h) == IF cls[h] = "BatchJob" THEN "Job" ELSE "MiniCluster"

\* the indices of the cluster objects of this kind, namespace and name
Found(kind, namespace, name) ==
  { i \in DOMAIN cluster :
      /\ cluster[i].kind = kind
      /\ cluster[i].namespace = namespace
      /\ StrV(cluster[i].name) = name }

S_job_name_eq == <<"j", "o", "b", "-", "n", "a", "m", "e", "=">>

\* the pods the cluster lists for a namespace and a label selector job-name=<value>
list_namespaced_pod(namespace, label_selector) ==
  SelectSeq(pods, LAMBDA p :
    /\ p.namespace = namespace
    /\ label_selector = S_job_name_eq \o p.job_name)

----------------------------------------------------------------------------
(* submit() *)

\* jobname kept on the class, shared by every handle
set_jobname_shared(h, value) == [g \in Handles |-> value]

\* self.jobname = value, on the handle h
set_jobname(h, value) == [jobname EXCEPT ![h] = value]

\* the objects the caller passes to submit(): one that generate() returns,
\* as it is or with the name prefix of the task set in its metadata
SubmitArgs(h) ==
  { generate(h, a) : a \in GenerateArgs } \cup
  { [generate(h, a) EXCEPT !.metadata.generate_name = StrV(jobprefix(h))] : a \in GenerateArgs }

\* the object the cluster creates from a body: the name is the prefix and a suffix
Created(body, namespace, sfx) ==
  [body EXCEPT !.metadata.name = StrV(PyStr(body.metadata.generate_name) \o sfx),
               !.metadata.namespace = StrV(namespace)]

\* the name prefix of the request recorded in place of the assigned name
result_generate_name(result) == result.metadata.generate_name

\* result.metadata.name, which submit() records
result_name(result) == result.metadata.name

\* the answers of the cluster to a create call: an error, or the suffix of the
\* new name. The cluster also refuses a body without a generateName, a name
\* already taken in the namespace, and an object beyond MaxObjects.
CreateAnswers == {None} \cup {StrV(sfx) : sfx \in Suffixes}

\* BatchJob.submit and FluxMiniCluster.submit: the create call raises, or the
\* cluster-assigned name of the created object is recorded
submit(h, body, answer) ==
  LET namespace == executor_args[h].namespace
      request == [api |-> "create", kind |-> KindOf(h), namespace |-> namespace,
                  name |-> body.metadata.generate_name]
      accepted ==
        /\ answer # None
        /\ Len(cluster) < MaxObjects
        /\ body.metadata.generate_name.t = "str"
        /\ Found(KindOf(h), namespace,
                 StrV(PyStr(body.metadata.generate_name) \o answer.v)) = {}
  IN  IF accepted
      THEN LET result == Created(body, namespace, answer.v)
           IN  /\ cluster' = Append(cluster,
                     [kind |-> KindOf(h), namespace |-> namespace,
                      name |-> result.metadata.name.v, body |-> result, creator |-> h])
               /\ jobname' = set_jobname(h, result_name(result))
               /\ last' = ClusterCall("submit", h, "return", ObjV(result), request, ObjV(result), FALSE, {})
      ELSE /\ cluster' = cluster
           /\ jobname' = jobname
           /\ last' = ClusterCall("submit", h, "ClientError", None, request, None, TRUE, {})

\* a call of submit() with an object the caller got from generate()
Submit(h) ==
  /\ \E body \in SubmitArgs(h), answer \in CreateAnswers : submit(h, body, answer)
  /\ UNCHANGED <<cls, job, executor_args, pods, fs, probe>>

----------------------------------------------------------------------------
(* status() *)

Counts == {None} \cup {IntV(n) : n \in 0..MaxCount}

\* job.status, as the cluster reports it
NativeStatuses == [failed : Counts, active : Counts, ready : Counts, succeeded : Counts]

\* the answers of the cluster to a read of a job: an error, or a native status
ReadAnswers ==
  {None} \cup
  { [failed |-> None, active |-> None, ready |-> None, succeeded |-> None],
    [failed |-> IntV(0), active |-> IntV(1), ready |-> IntV(0), succeeded |-> IntV(0)],
    [failed |-> IntV(1), active |-> IntV(1), ready |-> IntV(0), succeeded |-> IntV(2)],
    [failed |-> IntV(0), active |-> IntV(0), ready |-> IntV(0), succeeded |-> IntV(3)] }

\* the mapping with activity tested before failure
status_map_active_first(st, completions) ==
  IF Truthy(st.active) THEN "ACTIVE"
  ELSE IF PyNe(st.failed, IntV(0)) THEN "FAILED"
  ELSE IF Truthy(st.ready) THEN "READY"
  ELSE IF Truthy(st.succeeded) /\ st.succeeded = completions THEN "SUCCEEDED"
  ELSE "UNKNOWN"

\* BatchJob.status, after the read: the mapping of the native status
status_map(st, completions) ==
  IF PyNe(st.failed, IntV(0)) THEN "FAILED"
  ELSE IF Truthy(st.active) THEN "ACTIVE"
  ELSE IF Truthy(st.ready) THEN "READY"
  ELSE IF Truthy(st.succeeded) /\ st.succeeded = completions THEN "SUCCEEDED"
  ELSE "UNKNOWN"

\* the error of the read caught and reported as a status
status_swallow(h, request) ==
  ClusterCall("status", h, "return", JobStatusV("UNKNOWN"), request, None, TRUE, {})

\* BatchJob.status when read_namespaced_job raises: nothing catches the error
status_raise(h, request) ==
  ClusterCall("status", h, "ClientError", None, request, None, TRUE, {})

\* BatchJob.status: the read of the job named self.jobname, then the mapping
BatchJob_status(h, answer) ==
  LET namespace == executor_args[h].namespace
      request == [api |-> "read_namespaced_job", kind |-> "Job", namespace |-> namespace,
                  name |-> jobname[h]]
      found == Found("Job", namespace, jobname[h])
  IN  IF answer # None /\ found # {}
      THEN LET obj == cluster[CHOOSE i \in found : TRUE]
               response == [status |-> answer, spec |-> obj.body.spec, creator |-> obj.creator]
           IN  ClusterCall("status", h, "return",
                           JobStatusV(status_map(answer, obj.body.spec.completions)),
                           request, ObjV(response), FALSE, {})
      ELSE status_raise(h, request)

\* FluxMiniCluster has no status attribute: the call raises AttributeError
FluxMiniCluster_status(h) == LocalCall("status", h, "AttributeError", None)

\* a call of status()
Status(h) ==
  /\ \E answer \in ReadAnswers :
       last' = IF cls[h] = "BatchJob" THEN BatchJob_status(h, answer)
               ELSE FluxMiniCluster_status(h)
  /\ UNCHANGED <<cls, job, executor_args, jobname, cluster, pods, fs, probe>>

----------------------------------------------------------------------------
(* write_log() *)

S_txt == <<".", "t", "x", "t">>

\* the path of the log file of a pod
LogFile(logprefix, podname) == logprefix \o <<"-">> \o podname \o S_txt

\* utils.write_file(content, path): the file at path holds content
write_file(content, path, files) == (path :> content) @@ files

RECURSIVE WriteLogs(_, _, _, _)
\* the files after the logs of the first n pods of items are written, in order
WriteLogs(items, n, logprefix, files) ==
  IF n = 0 THEN files
  ELSE write_file(items[n].log, LogFile(logprefix, items[n].name),
                  WriteLogs(items, n - 1, logprefix, files))

\* BatchJob.write_log: the list call raises (k = 0), the log read of the k-th
\* pod raises, or every pod's log is written (k = Len(items) + 1)
BatchJob_write_log(h, logprefix, k) ==
  LET namespace == executor_args[h].namespace
      label_selector == S_job_name_eq \o PyStr(jobname[h])
      request == [api |-> "list_namespaced_pod", kind |-> "Pod", namespace |-> namespace,
                  name |-> jobname[h], label_selector |-> label_selector]
      items == list_namespaced_pod(namespace, label_selector)
      written == IF k = 0 THEN 0 ELSE k - 1
      paths == { LogFile(logprefix, items[i].name) : i \in 1..written }
  IN  /\ k <= Len(items) + 1
      /\ fs' = WriteLogs(items, written, logprefix, fs)
      /\ last' = [IF k = Len(items) + 1
                  THEN ClusterCall("write_log", h, "return", None, request, ObjV(items),
                                   FALSE, paths)
                  ELSE ClusterCall("write_log", h, "ClientError", None, request,
                                   IF k = 0 THEN None ELSE ObjV(items), TRUE, paths)
                  EXCEPT !.arg = StrV(logprefix)]

\* KubernetesObject.write_log, which FluxMiniCluster inherits: pass
KubernetesObject_write_log(h, logprefix) ==
  /\ fs' = fs
  /\ last' = [LocalCall("write_log", h, "return", None) EXCEPT !.arg = StrV(logprefix)]

\* a call of write_log()
WriteLog(h, logprefix) ==
  /\ IF cls[h] = "BatchJob"
     THEN \E k \in 0..(MaxPods + 1) : BatchJob_write_log(h, logprefix, k)
     ELSE KubernetesObject_write_log(h, logprefix)
  /\ UNCHANGED <<cls, job, executor_args, jobname, cluster, pods, probe>>

----------------------------------------------------------------------------
(* The cluster's controllers *)

Controller == LocalCall("controller", "none", "none", None)

\* the queue controller admits a suspended job
QueueRelease(i) ==
  /\ cluster[i].kind = "Job"
  /\ cluster[i].body.spec.suspend
  /\ cluster' = [cluster EXCEPT ![i].body.spec.suspend = FALSE]
  /\ last' = Controller
  /\ UNCHANGED <<cls, job, executor_args, jobname, pods, fs, probe>>

S_log_of == <<"l", "o", "g", " ", "o", "f", " ">>

\* the log text of a pod, which tells the pods apart
PodLog(podname) == S_log_of \o podname

\* a pod of a running job or MiniCluster appears, labelled job-name=<name>
PodCreate(i) ==
  /\ Len(pods) < MaxPods
  /\ cluster[i].kind = "Job" => ~cluster[i].body.spec.suspend
  /\ pods' = Append(pods,
       [namespace |-> cluster[i].namespace,
        name |-> cluster[i].name \o <<"-">> \o IntToStr(Len(pods) + 1),
        job_name |-> cluster[i].name,
        log |-> PodLog(cluster[i].name \o <<"-">> \o IntToStr(Len(pods) + 1))])
  /\ last' = Controller
  /\ UNCHANGED <<cls, job, executor_args, jobname, cluster, fs, probe>>

----------------------------------------------------------------------------
(* The handles and the cluster *)

Next ==
  \/ \E h \in Handles, a \in GenerateArgs : Generate(h, a)
  \/ \E h \in Handles : Submit(h)
  \/ \E h \in Handles : Status(h)
  \/ \E h \in Handles, logprefix \in LogPrefixes : WriteLog(h, logprefix)
  \/ \E i \in DOMAIN cluster : QueueRelease(i)
  \/ \E i \in DOMAIN cluster : PodCreate(i)

Spec == Init /\ [][Next]_vars

----------------------------------------------------------------------------
(* The status mapping alone, over every native status *)

InitStatus ==
  /\ cls = [h \in Handles |-> "BatchJob"]
  /\ job \in [Handles -> {t \in Tasks : t.jobid = IntV(42)}]
  /\ executor_args \in [Handles -> {c \in Configs : c.namespace = "ns1"}]
  /\ jobname = [h \in Handles |-> None]
  /\ cluster = <<>>
  /\ pods = <<>>
  /\ fs = <<>>
  /\ last = NoCall
  /\ probe \in [status : NativeStatuses, completions : Counts, result : {None}]

\* the mapping applied to the native status and the declared completions
MapStatus ==
  /\ probe.result = None
  /\ probe' = [probe EXCEPT !.result = JobStatusV(status_map(probe.status, probe.completions))]
  /\ UNCHANGED <<cls, job, executor_args, jobname, cluster, pods, fs, last>>

NextStatus == MapStatus

SpecStatus == InitStatus /\ [][NextStatus]_vars

----------------------------------------------------------------------------
(* The claims about the status mapping, under SpecStatus *)

\* a count that is reported and is not zero
Positive(x) == x.t = "int" /\ x.v >= 1

Status4(f, a, r, s) == [failed |-> IntV(f), active |-> IntV(a), ready |-> IntV(r), succeeded |-> IntV(s)]

C10_FailedOnlyOnFailure ==
  probe.result = JobStatusV("FAILED") => Positive(probe.status.failed)

----------------------------------------------------------------------------
(* The claims about the handles, under Spec *)

\* the cluster objects a handle created
CreatedBy(h) == { i \in DOMAIN cluster : cluster[i].creator = h }

\* C2: when the cluster call of submit(), status() or write_log() fails, the
\* call ends in an error raised to the caller and returns nothing, so never
\* a JobStatus; and a failed submit() leaves every jobname as it was.
C2_RemoteFailurePropagates ==
  [][ last'.failed =>
        /\ last'.op \in {"submit", "status", "write_log"}
        /\ last'.outcome = "ClientError"
        /\ last'.result = None
        /\ last'.op = "submit" => jobname' = jobname ]_vars

\* the read of status() failed on a handle whose job is on the cluster
C2_Witness ==
  /\ last.op = "status"
  /\ last.failed
  /\ jobname[last.h] # None
  /\ Found("Job", executor_args[last.h].namespace, jobname[last.h]) # {}

\* C3: status() on a handle whose jobname submit() has not set yet fails with
\* a precondition-violation error, for both classes: not with an error of a
\* cluster call, and not with a missing-operation error.
C3_StatusBeforeSubmit ==
  (last.op = "status" /\ jobname[last.h] = None) =>
    /\ last.outcome = "PreconditionError"
    /\ last.request = None

\* C4, as claimed: once a jobname is set, no later operation changes it.
C4_SetExactlyOnce ==
  [][ \A h \in Handles : jobname[h] # None => jobname'[h] = jobname[h] ]_vars

\* C4, amended: a jobname changes only in a submit() on that handle that the
\* cluster accepted, and it becomes the name the cluster assigned to the
\* object just created; generate(), status(), write_log() and a failed
\* submit() leave it as it is.
C4_SetOnlyBySubmit ==
  [][ \A h \in Handles :
        jobname'[h] # jobname[h] =>
          /\ last'.op = "submit"
          /\ last'.h = h
          /\ last'.outcome = "return"
          /\ Len(cluster') = Len(cluster) + 1
          /\ cluster'[Len(cluster')].creator = h
          /\ jobname'[h] = StrV(cluster'[Len(cluster')].name)
          /\ jobname'[h] = last'.result.v.metadata.name ]_vars

\* a second submit() on a handle was accepted and replaced its jobname
C4_Witness ==
  /\ last.op = "submit"
  /\ last.outcome = "return"
  /\ Cardinality(CreatedBy(last.h)) = 2
  /\ \E i \in CreatedBy(last.h) : StrV(cluster[i].name) # jobname[last.h]
  /\ jobname[last.h] = StrV(cluster[Len(cluster)].name)

S_prefix_align_reads_42 ==
  <<"s", "n", "a", "k", "e", "j", "o", "b", "-",
    "a", "l", "i", "g", "n", "-", "r", "e", "a", "d", "s", "-", "4", "2">>
S_prefix_a_b_7 == <<"s", "n", "a", "k", "e", "j", "o", "b", "-", "a", "-", "b", "-", "7">>
S_prefix_x_1 == <<"s", "n", "a", "k", "e", "j", "o", "b", "-", "x", "-", "1">>

\* "snakejob-<name>-<id>" with hyphens for underscores, written out for each task
ExpectedPrefix(task) ==
  CASE task.name = StrV(S_align_reads) /\ task.jobid = IntV(42) -> S_prefix_align_reads_42
    [] task.name = StrV(S_a_b) /\ task.jobid = IntV(7) -> S_prefix_a_b_7
    [] task.name = StrV(S_x) /\ task.jobid = IntV(1) -> S_prefix_x_1

\* C5: the object generate() returns has the prefix of its task as its
\* generateName, for both classes and whether or not submit() was called.
C5_GenerateName ==
  last.op = "generate" =>
    last.result.v.metadata.generate_name = StrV(ExpectedPrefix(job[last.h]))

\* the memory quantity in a generated object
MemoryOf(obj) ==
  IF obj.kind = "Job"
  THEN obj.spec.template.spec.containers[1].resources.requests.memory
  ELSE obj.spec.containers[1].resources.limits.memory

\* C6: the memory quantity of a generated object is "200Mi" when the task's
\* resources lack kueue.memory or hold a falsy value for it, and the value of
\* kueue.memory otherwise, for both classes.
C6_MemoryDefault ==
  last.op = "generate" =>
    LET res == job[last.h].resources
        given == "kueue.memory" \in DOMAIN res
                 /\ res["kueue.memory"] \notin {None, StrV(<<>>), IntV(0)}
    IN  MemoryOf(last.result.v) =
          IF given THEN res["kueue.memory"] ELSE StrV(<<"2", "0", "0", "M", "i">>)

\* C7: every object BatchJob.generate() returns has completions 3 and
\* suspend true; and a job on the cluster that is not suspended after a step,
\* and was suspended or absent before it, is so by a step of the queue
\* controller: no generate, submit, status or write_log releases a job.
C7_SuspendedUntilReleased ==
  [][ /\ (last'.op = "generate" /\ cls[last'.h] = "BatchJob") =>
           /\ last'.result.v.spec.completions = IntV(3)
           /\ last'.result.v.spec.suspend = TRUE
      /\ \A i \in DOMAIN cluster' :
           ( /\ cluster'[i].kind = "Job"
             /\ ~cluster'[i].body.spec.suspend
             /\ (i \in DOMAIN cluster => cluster[i].body.spec.suspend) )
           => last'.op = "controller" ]_vars

\* status() returned on a handle whose submitted job is still suspended, with 3 completions
C7_Witness ==
  /\ last.op = "status"
  /\ last.outcome = "return"
  /\ \E i \in CreatedBy(last.h) :
       /\ StrV(cluster[i].name) = jobname[last.h]
       /\ cluster[i].body.spec.suspend
       /\ cluster[i].body.spec.completions = IntV(3)

\* the pods a write_log() of the handle is to write the logs of
MatchingPods(h) ==
  { i \in DOMAIN pods :
      /\ pods[i].namespace = executor_args[h].namespace
      /\ StrV(pods[i].job_name) = jobname[h] }

\* C8: on a submitted handle of either class, write_log(logPrefix) writes one
\* file "<logPrefix>-<podName>.txt" holding the pod's log for each pod
\* labelled job-name=<jobname> in the namespace, and no other file; with no
\* such pod it writes nothing and raises nothing.
C8_WriteLogFiles ==
  (last.op = "write_log" /\ jobname[last.h] # None /\ ~last.failed) =>
    /\ last.outcome = "return"
    /\ last.files = { LogFile(last.arg.v, pods[i].name) : i \in MatchingPods(last.h) }
    /\ \A i \in MatchingPods(last.h) :
         /\ LogFile(last.arg.v, pods[i].name) \in DOMAIN fs
         /\ fs[LogFile(last.arg.v, pods[i].name)] = pods[i].log

\* C9: a step of one handle leaves the jobname of every other handle, and the
\* task and configuration of every handle, as they were; and a request of
\* status() or write_log() carries the handle's own jobname and namespace,
\* which on a submitted handle name an object that this handle's submit()
\* created, and a status() that returns has read that object.
C9_HandlesIndependent ==
  [][ /\ \A g \in Handles : g # last'.h => jobname'[g] = jobname[g]
      /\ job' = job
      /\ executor_args' = executor_args
      /\ (last'.op \in {"status", "write_log"} /\ last'.request # None) =>
           /\ last'.request.name = jobname[last'.h]
           /\ last'.request.namespace = executor_args[last'.h].namespace
           /\ jobname[last'.h] # None =>
                LET found == { i \in DOMAIN cluster :
                                 /\ cluster[i].namespace = last'.request.namespace
                                 /\ cluster[i].kind = KindOf(last'.h)
                                 /\ StrV(cluster[i].name) = last'.request.name }
                IN  found # {} /\ found \subseteq CreatedBy(last'.h)
           /\ (last'.op = "status" /\ last'.outcome = "return") =>
                last'.response.v.creator = last'.h ]_vars

\* both handles are submitted in one namespace, and status() returned on one of them
C9_Witness ==
  /\ \A h \in Handles : jobname[h] # None
  /\ \A g, h \in Handles : executor_args[g].namespace = executor_args[h].namespace
  /\ last.op = "status"
  /\ last.outcome = "return"

====
